---- MODULE Spec2Model ----
(***************************************************************************)
(* gh-auditor: the audit engine (Auditor::audit and its three checks) and  *)
(* the paginated fetcher (Auditor::get_all, Auditor::find) of src/lib.rs.  *)
(*                                                                         *)
(* An Option<T> is a sequence of length at most one: <<>> is None and      *)
(* <<x>> is Some(x).  A JSON object is a record; a key the object lacks is *)
(* a field the record lacks.  A Result is a record [ok, err, value].       *)
(***************************************************************************)
EXTENDS Integers, Sequences, FiniteSets, TLC

\* Bounds of the pages served to the paginated fetcher on its own.
MaxPages == 3
MaxItems == 2
\* Bounds of the pages served during an audit run.
AuditPages == 1
AuditItems == 1
\* The fetcher on its own issues no more requests than this (a cyclic chain
\* of next links has no end).
MaxRequests == 4

VARIABLES
    config,         \* Auditor.config: the three toggles and the whitelists
    organisation,   \* Auditor.organisation: the organisation's JSON object
    has_run_audit,  \* Auditor.has_run_audit
    errors,         \* audit(): the local Vec of errors; the report once done
    pc,             \* the position of the thread of control
    members,        \* audit_admin_commit_activity: the Vec get_all returned
    repos,          \* audit_all_master_branches_are_protected: the same
    idx,            \* the position of the for loop in members / repos
    found,          \* found_members / unprotected_repos
    fkind,          \* the fetch in progress: "get_all", "find" or "none"
    next,           \* get_all / find: the local Option<url> `next`
    entities,       \* get_all: the local Vec `entities`
    fresult,        \* what the fetch returned, once it has
    log,            \* the requests of the fetch in progress, with the responses
    outcome,        \* history: what each check of this run came to
    compliant,      \* history: every response served in this run was that of
                    \* a compliant organisation, free of errors
    entered_with,   \* history: has_run_audit as audit() found it on entry,
                    \* kept until the first check starts
    offenders,      \* history: the members / repositories of the check in
                    \* progress that the pages served mark as offending
    credentials,    \* main: the --token flag and the GITHUB_AUTH_KEY variable,
                    \* until the builder is consumed
    built,          \* main: what AuditorBuilder::finish returned, once it has
    exit_code       \* main: the code the process exited with, once it has

mainVars == <<credentials, built, exit_code>>

vars == <<mainVars, config, organisation, has_run_audit, errors, pc, members,
          repos, idx, found, fkind, next, entities, fresult, log, outcome,
          compliant, offenders, entered_with>>

auditVars == <<mainVars, entered_with, config, organisation, has_run_audit, errors, members, repos, idx,
               found, outcome>>

----------------------------------------------------------------------------
\* JSON access

\* serde_json::Value::get(key): Some(value) when the object has the key.
Get(v, k) == IF k \in DOMAIN v THEN <<v[k]>> ELSE <<>>

IsSome(o) == o # <<>>

Min(S) == CHOOSE x \in S : \A y \in S : x <= y

\* str::replace(from, to) on a URL template: the URL's suffix is the template
\* marker ("{/member}") or, once replaced, the query string.
Replace(url, from, to) ==
    IF url.suffix = from THEN [url EXCEPT !.suffix = to] ELSE url

Url(res, id, suffix, page) ==
    [res |-> res, id |-> id, suffix |-> suffix, page |-> page]

----------------------------------------------------------------------------
\* Results

Ok(v) == [ok |-> TRUE, err |-> "", value |-> v]
Err(e) == [ok |-> FALSE, err |-> e, value |-> <<>>]
Pending == [ok |-> FALSE, err |-> "pending", value |-> <<>>]

----------------------------------------------------------------------------
\* The server: what a GET of a page URL may answer

\* The JSON object at position i of the page: its id is its place in the chain;
\* the fields the checks read may be present or not.
ItemId(url, i) == url.page * 10 + i

ItemsAt(url, i) ==
    LET id == ItemId(url, i) IN
    CASE url.res = "members" ->
            { [login |-> id],
              [login |-> id, events_url |-> Url("events", id, "{/privacy}", 1)] }
      [] url.res = "events" ->
            { [id |-> id], [id |-> id, type |-> "PushEvent"],
              [id |-> id, type |-> "WatchEvent"] }
      [] url.res = "repos" ->
            { [full_name |-> id, default_branch |-> "master"] }
            \cup
            { [full_name |-> id, default_branch |-> d,
               branches_url |-> Url("branches", id, "{/branch}", 1)] :
              d \in {"master", "main"} }
      [] OTHER ->
            { [id |-> id, name |-> "master"],
              [id |-> id, name |-> "main", protected |-> FALSE] }
            \cup
            { [id |-> id, name |-> "master", protected |-> p] : p \in BOOLEAN }

\* The arrays of exactly n items, and of at most I.
RECURSIVE ArraysOf(_, _)
ArraysOf(url, n) ==
    IF n = 0 THEN { <<>> }
    ELSE { Append(s, it) : s \in ArraysOf(url, n - 1), it \in ItemsAt(url, n) }

Arrays(url, I) == UNION { ArraysOf(url, n) : n \in 0..I }

\* The body: a JSON array of items, a JSON value that is no array, or bytes
\* that are no JSON.
Bodies(url, I) ==
    { [kind |-> "array", items |-> s] : s \in Arrays(url, I) }
    \cup { [kind |-> "object", items |-> <<>>], [kind |-> "undecodable", items |-> <<>>] }

\* The Link header: absent, undecodable, or a list of links, each with its
\* relation types.  A next link leads to the following page of the chain.
\* The fetcher on its own (`alone`) is also served headers that do not decode,
\* headers with no next link, and next links that lead back to the first page.
LinkTo(url, rel, p) == [rel |-> {rel}, link |-> [url EXCEPT !.page = p]]

LinkHeaders(url, P, alone) ==
    { [kind |-> "absent", values |-> <<>>] }
    \cup
    (IF alone
     THEN { [kind |-> "malformed", values |-> <<>>],
            [kind |-> "links", values |-> <<LinkTo(url, "prev", 1)>>],
            [kind |-> "links", values |-> <<LinkTo(url, "next", 1)>>] }
     ELSE {})
    \cup
    (IF url.page < P
     THEN { [kind |-> "links",
             values |-> <<LinkTo(url, "prev", 1), LinkTo(url, "next", url.page + 1)>>] }
     ELSE {})

TransportFailure ==
    [transport |-> "fail", link |-> [kind |-> "absent", values |-> <<>>],
     body |-> [kind |-> "undecodable", items |-> <<>>]]

Responses(url, P, I, alone) ==
    { [transport |-> "ok", link |-> h, body |-> b] :
      h \in LinkHeaders(url, P, alone), b \in Bodies(url, I) }
    \cup { TransportFailure }

\* The server answers a URL it has answered during this fetch as it did then.
\* The log of the fetcher on its own keeps the responses; the log of a fetch
\* of an audit run keeps the URLs only.
Served(url, P, I, alone) ==
    LET seen == { i \in 1..Len(log) : log[i].url = url } IN
    IF seen = {} \/ ~alone THEN Responses(url, P, I, alone)
    ELSE { log[Min(seen)].resp }

NotKept ==
    [transport |-> "not kept", link |-> [kind |-> "absent", values |-> <<>>],
     body |-> [kind |-> "undecodable", items |-> <<>>]]

Logged(url, resp, alone) == [url |-> url, resp |-> IF alone THEN resp ELSE NotKept]

----------------------------------------------------------------------------
\* The paginated fetcher

\* headers().decode::<Link>().ok().and_then(|v| v.values().iter().find(rel
\* contains Next).map(link)): the first link with the next relation.
NextLink(h) ==
    IF h.kind # "links" THEN <<>>
    ELSE LET nx == { i \in 1..Len(h.values) : "next" \in h.values[i].rel } IN
         IF nx = {} THEN <<>> ELSE <<h.values[Min(nx)].link>>

\* The closures handed to find.
IsPushEvent(e) == IF IsSome(Get(e, "type")) THEN e.type = "PushEvent" ELSE FALSE
IsMaster(r) == IF IsSome(Get(r, "name")) THEN r.name = "master" ELSE FALSE

Pred(url, item) == IF url.res = "events" THEN IsPushEvent(item) ELSE IsMaster(item)

Max(S) == CHOOSE x \in S : \A y \in S : y <= x

\* A faulty variant: the last item that satisfies the predicate.
FindInLast(url, items) ==
    LET hit == { i \in 1..Len(items) : Pred(url, items[i]) } IN
    IF hit = {} THEN <<>> ELSE <<items[Max(hit)]>>

\* Iterator::find: the first item of the sequence that satisfies the predicate.
FindIn(url, items) ==
    LET hit == { i \in 1..Len(items) : Pred(url, items[i]) } IN
    IF hit = {} THEN <<>> ELSE <<items[Min(hit)]>>

\* A faulty variant: the items of a page are put before those of the pages before it.
GetAllIterPrepend(ents, resp) ==
    IF resp.transport = "fail"
    THEN [next |-> <<>>, entities |-> <<>>, result |-> Err("Http")]
    ELSE LET nx == NextLink(resp.link) IN
         IF resp.body.kind = "undecodable"
         THEN [next |-> <<>>, entities |-> <<>>, result |-> Err("Http")]
         ELSE IF resp.body.kind # "array"
         THEN [next |-> <<>>, entities |-> <<>>, result |-> Err("MissingGitHubData")]
         ELSE LET all == resp.body.items \o ents IN
              [next |-> nx, entities |-> all,
               result |-> IF nx = <<>> THEN Ok(all) ELSE Pending]

\* A faulty variant: a transport failure ends the loop, and what was fetched is returned.
GetAllIterPartial(ents, resp) ==
    IF resp.transport = "fail"
    THEN [next |-> <<>>, entities |-> ents, result |-> Ok(ents)]
    ELSE LET nx == NextLink(resp.link) IN
         IF resp.body.kind = "undecodable"
         THEN [next |-> <<>>, entities |-> <<>>, result |-> Err("Http")]
         ELSE IF resp.body.kind # "array"
         THEN [next |-> <<>>, entities |-> <<>>, result |-> Err("MissingGitHubData")]
         ELSE LET all == ents \o resp.body.items IN
              [next |-> nx, entities |-> all,
               result |-> IF nx = <<>> THEN Ok(all) ELSE Pending]

\* A faulty variant: a Link header that does not decode is an error (error::HyperX).
GetAllIterStrictLink(ents, resp) ==
    IF resp.transport = "fail"
    THEN [next |-> <<>>, entities |-> <<>>, result |-> Err("Http")]
    ELSE LET nx == NextLink(resp.link) IN
         IF resp.link.kind = "malformed"
         THEN [next |-> <<>>, entities |-> <<>>, result |-> Err("HyperX")]
         ELSE IF resp.body.kind = "undecodable"
         THEN [next |-> <<>>, entities |-> <<>>, result |-> Err("Http")]
         ELSE IF resp.body.kind # "array"
         THEN [next |-> <<>>, entities |-> <<>>, result |-> Err("MissingGitHubData")]
         ELSE LET all == ents \o resp.body.items IN
              [next |-> nx, entities |-> all,
               result |-> IF nx = <<>> THEN Ok(all) ELSE Pending]

\* One iteration of get_all's loop: [next, entities, result]; the result is
\* Pending while the loop goes on.
GetAllIter(ents, resp) ==
    IF resp.transport = "fail"
    THEN [next |-> <<>>, entities |-> <<>>, result |-> Err("Http")]
    ELSE LET nx == NextLink(resp.link) IN
         IF resp.body.kind = "undecodable"
         THEN [next |-> <<>>, entities |-> <<>>, result |-> Err("Http")]
         ELSE IF resp.body.kind # "array"
         THEN [next |-> <<>>, entities |-> <<>>, result |-> Err("MissingGitHubData")]
         ELSE LET all == ents \o resp.body.items IN
              [next |-> nx, entities |-> all,
               result |-> IF nx = <<>> THEN Ok(all) ELSE Pending]

\* A faulty variant: the item found is returned once the cursor is exhausted.
FindIterNoEarlyExit(url, resp) ==
    IF resp.transport = "fail"
    THEN [next |-> <<>>, result |-> Err("Http")]
    ELSE LET nx == NextLink(resp.link) IN
         IF resp.body.kind = "undecodable"
         THEN [next |-> <<>>, result |-> Err("Http")]
         ELSE LET item == IF resp.body.kind = "array"
                          THEN FindIn(url, resp.body.items) ELSE <<>> IN
              IF nx # <<>> THEN [next |-> nx, result |-> Pending]
              ELSE [next |-> <<>>, result |-> Ok(item)]

\* A faulty variant: the cursor is not advanced past a page with no match.
FindIterStuck(url, resp) ==
    IF resp.transport = "fail"
    THEN [next |-> <<>>, result |-> Err("Http")]
    ELSE LET nx == NextLink(resp.link) IN
         IF resp.body.kind = "undecodable"
         THEN [next |-> <<>>, result |-> Err("Http")]
         ELSE LET item == IF resp.body.kind = "array"
                          THEN FindIn(url, resp.body.items) ELSE <<>> IN
              IF IsSome(item)
              THEN [next |-> <<>>, result |-> Ok(item)]
              ELSE [next |-> <<url>>, result |-> Pending]

\* One iteration of find's loop.
FindIter(url, resp) ==
    IF resp.transport = "fail"
    THEN [next |-> <<>>, result |-> Err("Http")]
    ELSE LET nx == NextLink(resp.link) IN
         IF resp.body.kind = "undecodable"
         THEN [next |-> <<>>, result |-> Err("Http")]
         ELSE LET item == IF resp.body.kind = "array"
                          THEN FindIn(url, resp.body.items) ELSE <<>> IN
              IF IsSome(item)
              THEN [next |-> <<>>, result |-> Ok(item)]
              ELSE [next |-> nx, result |-> IF nx = <<>> THEN Ok(<<>>) ELSE Pending]

\* A response of a compliant organisation: no error, no admin push, the
\* repository's primary branch not among the unprotected branches listed.
PrimaryBranch(url) ==
    IF url.res = "branches" /\ idx \in 1..Len(repos)
    THEN Get(repos[idx], "default_branch") ELSE <<>>

CompliantResponse(url, resp) ==
    /\ resp.transport = "ok"
    /\ resp.body.kind = "array"
    /\ \A i \in 1..Len(resp.body.items) :
         LET it == resp.body.items[i] IN
         CASE url.res = "members" -> IsSome(Get(it, "events_url"))
           [] url.res = "events" -> ~IsPushEvent(it)
           [] url.res = "repos" -> IsSome(Get(it, "branches_url"))
           [] OTHER -> Get(it, "name") # PrimaryBranch(url)

\* history: what a page served says of the member or the repository the loop
\* is at.  A page of a feed that holds a PushEvent marks the member.  A page of
\* a branch listing marks the repository when the first branch named master it
\* holds is not marked protected, or when the listing ends on it with no branch
\* named master.
Marks(url, resp) ==
    IF resp.transport # "ok" \/ resp.body.kind = "undecodable" THEN FALSE
    ELSE LET items == resp.body.items
             ends == \A i \in 1..Len(resp.link.values) :
                        "next" \notin resp.link.values[i].rel
         IN
         IF url.res = "events"
         THEN \E i \in 1..Len(items) :
                 "type" \in DOMAIN items[i] /\ items[i].type = "PushEvent"
         ELSE LET ms == { i \in 1..Len(items) :
                          "name" \in DOMAIN items[i] /\ items[i].name = "master" } IN
              IF ms = {} THEN ends
              ELSE LET b == items[Min(ms)] IN
                   ~("protected" \in DOMAIN b /\ b.protected)

\* The member or the repository the loop is at.
Subject(url) == IF url.res = "events" THEN members[idx] ELSE repos[idx]

\* get_all's loop, one request.
GetAllStep(P, I, alone) ==
    /\ fkind = "get_all"
    /\ fresult = Pending
    /\ next # <<>>
    /\ alone => Len(log) < MaxRequests
    /\ \E resp \in Served(next[1], P, I, alone) :
         LET it == GetAllIter(entities, resp) IN
         /\ next' = it.next
         /\ entities' = it.entities
         /\ fresult' = it.result
         /\ log' = Append(log, Logged(next[1], resp, alone))
         /\ compliant' = (compliant /\ CompliantResponse(next[1], resp))
    /\ UNCHANGED <<auditVars, pc, fkind, offenders>>

\* find's loop, one request.
FindStep(P, I, alone) ==
    /\ fkind = "find"
    /\ fresult = Pending
    /\ next # <<>>
    /\ alone => Len(log) < MaxRequests
    /\ \E resp \in Served(next[1], P, I, alone) :
         LET it == FindIter(next[1], resp) IN
         /\ next' = it.next
         /\ fresult' = it.result
         /\ log' = Append(log, Logged(next[1], resp, alone))
         /\ compliant' = (compliant /\ CompliantResponse(next[1], resp))
         /\ offenders' = IF idx > 0 /\ Marks(next[1], resp)
                         THEN Append(offenders, Subject(next[1])) ELSE offenders
    /\ UNCHANGED <<auditVars, pc, fkind, entities>>

\* The entry of get_all and of find: the locals before the loop.
Call(kind, url) ==
    /\ fkind' = kind
    /\ next' = <<url>>
    /\ entities' = <<>>
    /\ fresult' = Pending
    /\ log' = <<>>

NoCall ==
    /\ fkind' = "none"
    /\ next' = <<>>
    /\ entities' = <<>>
    /\ fresult' = Pending
    /\ log' = <<>>

----------------------------------------------------------------------------
\* The fetcher on its own: get_all over the admins of an organisation, find
\* over the events of a member.

\* The builder once finish(self) has consumed it.
Consumed == [consumed |-> TRUE]

NoConfig ==
    [enforces_2fa |-> FALSE, admins_have_no_commit_activity |-> FALSE,
     all_repos_master_is_protected |-> FALSE,
     installed_app_whitelist |-> <<>>, admin_whitelist |-> <<>>,
     member_whitelist |-> <<>>]

NoOutcome == [c \in {"2fa", "admin", "branch"} |-> "none"]

FetchInit ==
    /\ config = NoConfig
    /\ organisation = [login |-> 0]
    /\ has_run_audit = FALSE
    /\ errors = <<>>
    /\ pc = "fetch"
    /\ members = <<>>
    /\ repos = <<>>
    /\ idx = 0
    /\ found = <<>>
    /\ fkind = "none"
    /\ next = <<>>
    /\ entities = <<>>
    /\ fresult = Pending
    /\ log = <<>>
    /\ outcome = NoOutcome
    /\ compliant = TRUE
    /\ offenders = <<>>
    /\ entered_with = <<>>
    /\ credentials = Consumed
    /\ built = Ok(<<>>)
    /\ exit_code = <<>>

CallGetAll ==
    /\ pc = "fetch"
    /\ fkind = "none"
    /\ Call("get_all", Url("members", 0, "?role=admin", 1))
    /\ UNCHANGED <<auditVars, pc, compliant, offenders>>

CallFind ==
    /\ pc = "fetch"
    /\ fkind = "none"
    /\ Call("find", Url("events", 1, "", 1))
    /\ UNCHANGED <<auditVars, pc, compliant, offenders>>

FetchNext ==
    \/ CallGetAll
    \/ CallFind
    \/ GetAllStep(MaxPages, MaxItems, TRUE)
    \/ FindStep(MaxPages, MaxItems, TRUE)

FetchSpec == FetchInit /\ [][FetchNext]_vars

----------------------------------------------------------------------------
\* The audit engine

Checks == <<"2fa", "admin", "branch">>

\* error::Error.  `by` is history: the check whose run produced the entry
\* ("audit" for the entry audit() itself appends).
AuditError(kind, evidence) == [type |-> "Audit", kind |-> kind, evidence |-> evidence]
OtherError(type) == [type |-> type, kind |-> "", evidence |-> <<>>]

Entry(error, by) ==
    [type |-> error.type, kind |-> error.kind, evidence |-> error.evidence, by |-> by]

\* A faulty variant: the error is put at the head of the Vec.
CollectFirst(errs, check, result) ==
    IF result.ok THEN errs ELSE <<Entry(result.err, check)>> \o errs

\* try_and_collect_errors!: an Err is pushed, an Ok leaves the Vec alone.
Collect(errs, check, result) ==
    IF result.ok THEN errs ELSE Append(errs, Entry(result.err, check))

\* A faulty variant: audit() returns at the first error (the `?` operator).
AfterCheckShortCircuit(check, result) ==
    IF ~result.ok THEN "finish"
    ELSE CASE check = "2fa" -> "admin"
           [] check = "admin" -> "branch"
           [] OTHER -> "finish"

\* audit(): the check that follows, whatever the check before it returned.
AfterCheck(check, result) ==
    CASE check = "2fa" -> "admin"
      [] check = "admin" -> "branch"
      [] OTHER -> "finish"

OutcomeOf(enabled, result) ==
    IF ~enabled THEN "skipped"
    ELSE IF result.ok THEN "passed"
    ELSE IF result.err.type = "Audit" THEN "failed"
    ELSE "error"

\* A check returns: its locals are dropped, audit() collects its error and
\* goes on.
Return(check, enabled, result) ==
    /\ members' = <<>>
    /\ repos' = <<>>
    /\ idx' = 0
    /\ found' = <<>>
    /\ NoCall
    /\ errors' = Collect(errors, check, result)
    /\ outcome' = [outcome EXCEPT ![check] = OutcomeOf(enabled, result)]
    /\ pc' = AfterCheck(check, result)

\* A faulty variant: a flag the organisation lacks counts as set.
Check2faDefaultTrue(org) ==
    LET flag == Get(org, "two_factor_requirement_enabled")
        enabled == IF IsSome(flag) THEN flag[1] ELSE TRUE IN
    IF enabled THEN Ok(<<>>) ELSE Err(AuditError("Disabled2Fa", <<>>))

\* audit_2fa, after its toggle.
Check2fa(org) ==
    LET flag == Get(org, "two_factor_requirement_enabled")
        enabled == IF IsSome(flag) THEN flag[1] ELSE FALSE IN
    IF enabled THEN Ok(<<>>) ELSE Err(AuditError("Disabled2Fa", <<>>))

\* A faulty variant: the evidence is the first admin found only.
AdminVerdictFirst(found_members) ==
    IF found_members = <<>> THEN Ok(<<>>)
    ELSE Err(AuditError("AdminsHaveCommits", <<found_members[1]>>))

\* The tail of audit_admin_commit_activity.
AdminVerdict(found_members) ==
    IF found_members = <<>> THEN Ok(<<>>)
    ELSE Err(AuditError("AdminsHaveCommits", found_members))

\* The tail of audit_all_master_branches_are_protected.
BranchVerdict(unprotected_repos) ==
    IF unprotected_repos = <<>> THEN Ok(<<>>)
    ELSE Err(AuditError("UnProtectedMasterBranches", unprotected_repos))

\* A faulty variant: a repository with no branch named master listed counts as
\* protected.
IsUnprotectedAbsentFine(master) ==
    IF master = <<>> THEN FALSE
    ELSE LET p == Get(master[1], "protected") IN IF p = <<>> THEN TRUE ELSE ~p[1]

\* master.and_then(|b| b.get("protected").and_then(as_bool)).map(|b| !b)
\* .unwrap_or(true)
IsUnprotected(master) ==
    IF master = <<>> THEN TRUE
    ELSE LET p == Get(master[1], "protected") IN
         IF p = <<>> THEN TRUE ELSE ~p[1]

CompliantOrganisation(org) ==
    /\ Get(org, "two_factor_requirement_enabled") = <<TRUE>>
    /\ IsSome(Get(org, "members_url"))
    /\ IsSome(Get(org, "repos_url"))

\* A faulty variant: the flag is never set.
MarkAuditNever(flag, enabled) == flag

\* mark_audit, called by a check once it is past its toggle.
MarkAudit(flag, enabled) == flag \/ enabled

\* A faulty variant: the flag is left as the run before set it.
EnterFlagKept(flag) == flag

\* audit(), line 38: self.has_run_audit = false.
EnterFlag(flag) == FALSE

\* audit(), lines 38-39.
AuditEnter ==
    /\ pc \in {"ready", "done"}
    /\ has_run_audit' = EnterFlag(has_run_audit)
    /\ errors' = <<>>
    /\ outcome' = NoOutcome
    /\ members' = <<>>
    /\ repos' = <<>>
    /\ idx' = 0
    /\ found' = <<>>
    /\ NoCall
    /\ compliant' = CompliantOrganisation(organisation)
    /\ offenders' = <<>>
    /\ pc' = "2fa"
    /\ entered_with' = <<has_run_audit>>
    /\ UNCHANGED <<mainVars, config, organisation>>

\* audit_2fa.
Audit2fa ==
    /\ pc = "2fa"
    /\ has_run_audit' = MarkAudit(has_run_audit, config.enforces_2fa)
    /\ Return("2fa", config.enforces_2fa,
              IF config.enforces_2fa THEN Check2fa(organisation) ELSE Ok(<<>>))
    /\ entered_with' = <<>>
    /\ UNCHANGED <<mainVars, config, organisation, compliant, offenders>>

\* The head of the loop over the admins: the loop is over, the member has no
\* events_url, or find is called on the member's events.
AdminIterate(ms, i, fnd) ==
    IF i > Len(ms)
    THEN Return("admin", TRUE, AdminVerdict(fnd))
    ELSE LET events_url == Get(ms[i], "events_url") IN
         IF events_url = <<>>
         THEN Return("admin", TRUE, Err(OtherError("MissingGitHubData")))
         ELSE /\ Call("find", Replace(events_url[1], "{/privacy}", ""))
              /\ members' = ms
              /\ idx' = i
              /\ found' = fnd
              /\ pc' = "admin_events"
              /\ UNCHANGED <<repos, errors, outcome>>

\* audit_admin_commit_activity, up to its call of get_all.
AdminBegin ==
    /\ pc = "admin"
    /\ has_run_audit' = MarkAudit(has_run_audit, config.admins_have_no_commit_activity)
    /\ IF ~config.admins_have_no_commit_activity
       THEN Return("admin", FALSE, Ok(<<>>))
       ELSE LET members_url == Get(organisation, "members_url") IN
            IF members_url = <<>>
            THEN Return("admin", TRUE, Err(OtherError("MissingGitHubData")))
            ELSE /\ Call("get_all", Replace(members_url[1], "{/member}", "?role=admin"))
                 /\ pc' = "admin_members"
                 /\ UNCHANGED <<members, repos, idx, found, errors, outcome>>
    /\ offenders' = <<>>
    /\ UNCHANGED <<mainVars, entered_with, config, organisation, compliant>>

\* get_all returns to audit_admin_commit_activity.
AdminMembers ==
    /\ pc = "admin_members"
    /\ fresult # Pending
    /\ IF ~fresult.ok
       THEN Return("admin", TRUE, Err(OtherError(fresult.err)))
       ELSE AdminIterate(fresult.value, 1, <<>>)
    /\ UNCHANGED <<mainVars, entered_with, config, organisation, has_run_audit, compliant, offenders>>

\* find returns to audit_admin_commit_activity.
AdminEvents ==
    /\ pc = "admin_events"
    /\ fresult # Pending
    /\ IF ~fresult.ok
       THEN Return("admin", TRUE, Err(OtherError(fresult.err)))
       ELSE AdminIterate(members, idx + 1,
                         IF IsSome(fresult.value) THEN Append(found, members[idx])
                         ELSE found)
    /\ UNCHANGED <<mainVars, entered_with, config, organisation, has_run_audit, compliant, offenders>>

\* The head of the loop over the repositories.
BranchIterate(rs, i, unprotected) ==
    IF i > Len(rs)
    THEN Return("branch", TRUE, BranchVerdict(unprotected))
    ELSE LET branches_url == Get(rs[i], "branches_url") IN
         IF branches_url = <<>>
         THEN Return("branch", TRUE, Err(OtherError("MissingGitHubData")))
         ELSE /\ Call("find", Replace(branches_url[1], "{/branch}", "?protected=false"))
              /\ repos' = rs
              /\ idx' = i
              /\ found' = unprotected
              /\ pc' = "branch_branches"
              /\ UNCHANGED <<members, errors, outcome>>

\* audit_all_master_branches_are_protected, up to its call of get_all.
BranchBegin ==
    /\ pc = "branch"
    /\ has_run_audit' = MarkAudit(has_run_audit, config.all_repos_master_is_protected)
    /\ IF ~config.all_repos_master_is_protected
       THEN Return("branch", FALSE, Ok(<<>>))
       ELSE LET repos_url == Get(organisation, "repos_url") IN
            IF repos_url = <<>>
            THEN Return("branch", TRUE, Err(OtherError("MissingGitHubData")))
            ELSE /\ Call("get_all", repos_url[1])
                 /\ pc' = "branch_repos"
                 /\ UNCHANGED <<members, repos, idx, found, errors, outcome>>
    /\ offenders' = <<>>
    /\ UNCHANGED <<mainVars, entered_with, config, organisation, compliant>>

\* get_all returns to audit_all_master_branches_are_protected.
BranchRepos ==
    /\ pc = "branch_repos"
    /\ fresult # Pending
    /\ IF ~fresult.ok
       THEN Return("branch", TRUE, Err(OtherError(fresult.err)))
       ELSE BranchIterate(fresult.value, 1, <<>>)
    /\ UNCHANGED <<mainVars, entered_with, config, organisation, has_run_audit, compliant, offenders>>

\* find returns to audit_all_master_branches_are_protected.
BranchBranches ==
    /\ pc = "branch_branches"
    /\ fresult # Pending
    /\ IF ~fresult.ok
       THEN Return("branch", TRUE, Err(OtherError(fresult.err)))
       ELSE BranchIterate(repos, idx + 1,
                          IF IsUnprotected(fresult.value) THEN Append(found, repos[idx])
                          ELSE found)
    /\ UNCHANGED <<mainVars, entered_with, config, organisation, has_run_audit, compliant, offenders>>

\* A faulty variant: a run of no audit reports nothing.
ReportAsIs(errs, has_run) == errs

\* audit(), lines 54-58: the report of a run that ran no audit says so.
Report(errs, has_run) ==
    IF ~has_run
    THEN Append(errs, Entry(AuditError("NoAuditsRan", <<>>), "audit"))
    ELSE errs

\* audit(), lines 54-64.
AuditFinish ==
    /\ pc = "finish"
    /\ errors' = Report(errors, has_run_audit)
    /\ pc' = "done"
    /\ UNCHANGED <<mainVars, entered_with, config, organisation, has_run_audit, members, repos, idx, found,
                   fkind, next, entities, fresult, log, outcome, compliant, offenders>>

Opt(k, v, on) == IF on THEN k :> v ELSE <<>>

Organisations ==
    { [login |-> 0]
      @@ Opt("two_factor_requirement_enabled", t = "true", t # "absent")
      @@ Opt("members_url", Url("members", 0, "{/member}", 1), m)
      @@ Opt("repos_url", Url("repos", 0, "", 1), r) :
      t \in {"true", "false", "absent"}, m \in BOOLEAN, r \in BOOLEAN }

\* The configurations of the three toggles, with no whitelist (None).
Configs ==
    [enforces_2fa : BOOLEAN, admins_have_no_commit_activity : BOOLEAN,
     all_repos_master_is_protected : BOOLEAN,
     installed_app_whitelist : {<<>>}, admin_whitelist : {<<>>},
     member_whitelist : {<<>>}]

\* The configurations with whitelists: each is None or Some(vec!["bors"]), a
\* name that no admin, member or installation of the organisation bears.
Whitelists == { <<>>, << <<"bors">> >> }

WhitelistConfigs ==
    [enforces_2fa : BOOLEAN, admins_have_no_commit_activity : BOOLEAN,
     all_repos_master_is_protected : BOOLEAN,
     installed_app_whitelist : Whitelists, admin_whitelist : Whitelists,
     member_whitelist : Whitelists]

\* The Auditor as AuditorBuilder::finish constructs it, with one of configs.
Built(configs) ==
    /\ config \in configs
    /\ organisation \in Organisations
    /\ has_run_audit = FALSE
    /\ errors = <<>>
    /\ pc = "ready"
    /\ members = <<>>
    /\ repos = <<>>
    /\ idx = 0
    /\ found = <<>>
    /\ fkind = "none"
    /\ next = <<>>
    /\ entities = <<>>
    /\ fresult = Pending
    /\ log = <<>>
    /\ outcome = NoOutcome
    /\ compliant = TRUE
    /\ offenders = <<>>
    /\ entered_with = <<>>
    /\ credentials = Consumed
    /\ built = Ok(<<>>)
    /\ exit_code = <<>>

Init == Built(Configs)

Next ==
    \/ AuditEnter
    \/ Audit2fa
    \/ AdminBegin
    \/ GetAllStep(AuditPages, AuditItems, FALSE)
    \/ FindStep(AuditPages, AuditItems, FALSE)
    \/ AdminMembers
    \/ AdminEvents
    \/ BranchBegin
    \/ BranchRepos
    \/ BranchBranches
    \/ AuditFinish

Spec == Init /\ [][Next]_vars

----------------------------------------------------------------------------
\* The audit engine under its scheduling: audit() is one thread of control
\* and every request returns, so a step that can be taken is taken.
LiveInit ==
    /\ Init
    /\ config.admins_have_no_commit_activity # config.all_repos_master_is_protected
    /\ CompliantOrganisation(organisation)

LiveSpec == LiveInit /\ [][Next]_vars /\ WF_vars(Next)

----------------------------------------------------------------------------
\* main: the builder, one call of audit(), the exit code

\* impl Default for Config.
ConfigDefault ==
    [enforces_2fa |-> TRUE, admins_have_no_commit_activity |-> TRUE,
     all_repos_master_is_protected |-> TRUE,
     installed_app_whitelist |-> <<>>, admin_whitelist |-> <<>>,
     member_whitelist |-> <<>>]

\* No Auditor yet: there is no organisation.
NoOrganisation == [unset |-> TRUE]

OrgUrl == Url("orgs", 0, "", 1)

\* What GET /orgs/{org} may answer: a transport failure, a body that is no
\* JSON (body <<>>), or the organisation's JSON object.
OrgResponses ==
    { [transport |-> "fail", body |-> <<>>], [transport |-> "ok", body |-> <<>>] }
    \cup { [transport |-> "ok", body |-> <<o>>] : o \in Organisations }

\* self.auth_key.or_else(|| std::env::var(GITHUB_AUTH_ENV_KEY).ok())
AuthKey(creds) == IF IsSome(creds.flag) THEN creds.flag ELSE creds.env

\* A faulty variant: the organisation is requested first, the key looked for
\* after.
FinishRequestFirst(creds, resp) ==
    IF AuthKey(creds) = <<>>
    THEN [built |-> Err("NoAuthKey"), organisation |-> NoOrganisation,
          log |-> <<Logged(OrgUrl, NotKept, FALSE)>>]
    ELSE IF resp.transport = "fail" \/ resp.body = <<>>
    THEN [built |-> Err("Http"), organisation |-> NoOrganisation,
          log |-> <<Logged(OrgUrl, NotKept, FALSE)>>]
    ELSE [built |-> Ok(<<>>), organisation |-> resp.body[1],
          log |-> <<Logged(OrgUrl, NotKept, FALSE)>>]

\* AuditorBuilder::finish: what it returns, the organisation of the Auditor
\* it constructs, and the requests it made.
Finish(creds, resp) ==
    IF AuthKey(creds) = <<>>
    THEN [built |-> Err("NoAuthKey"), organisation |-> NoOrganisation, log |-> <<>>]
    ELSE IF resp.transport = "fail" \/ resp.body = <<>>
    THEN [built |-> Err("Http"), organisation |-> NoOrganisation,
          log |-> <<Logged(OrgUrl, NotKept, FALSE)>>]
    ELSE [built |-> Ok(<<>>), organisation |-> resp.body[1],
          log |-> <<Logged(OrgUrl, NotKept, FALSE)>>]

\* main before builder.finish(): the key comes from the --token flag, from
\* the environment, from both or from neither; the config is the default.
MainInit ==
    /\ config = ConfigDefault
    /\ organisation = NoOrganisation
    /\ has_run_audit = FALSE
    /\ errors = <<>>
    /\ pc = "main"
    /\ members = <<>>
    /\ repos = <<>>
    /\ idx = 0
    /\ found = <<>>
    /\ fkind = "none"
    /\ next = <<>>
    /\ entities = <<>>
    /\ fresult = Pending
    /\ log = <<>>
    /\ outcome = NoOutcome
    /\ compliant = TRUE
    /\ offenders = <<>>
    /\ entered_with = <<>>
    /\ credentials \in [flag : {<<>>, <<"flag key">>}, env : {<<>>, <<"env key">>}]
    /\ built = Pending
    /\ exit_code = <<>>

\* builder.finish().
BuilderFinish ==
    /\ pc = "main"
    /\ \E resp \in OrgResponses :
         LET f == Finish(credentials, resp) IN
         /\ built' = f.built
         /\ organisation' = f.organisation
         /\ log' = f.log
    /\ pc' = "built"
    /\ UNCHANGED <<credentials, exit_code, entered_with, config, has_run_audit,
                   errors, members, repos, idx, found, fkind, next, entities,
                   fresult, outcome, compliant, offenders>>

\* try_or_exit(builder.finish(), -1).
MainTryOrExit ==
    /\ pc = "built"
    /\ IF built.ok
       THEN pc' = "ready" /\ UNCHANGED exit_code
       ELSE pc' = "exited" /\ exit_code' = <<-1>>
    /\ credentials' = Consumed
    /\ UNCHANGED <<built, entered_with, config, organisation,
                   has_run_audit, errors, members, repos, idx, found, fkind,
                   next, entities, fresult, log, outcome, compliant, offenders>>

\* auditor.audit(): main calls it once.
MainAudit == pc = "ready" /\ AuditEnter

\* if auditor.audit().is_err() { exit(-2) }, else main returns Ok(()).
MainExit ==
    /\ pc = "done"
    /\ pc' = "exited"
    /\ exit_code' = IF errors # <<>> THEN <<-2>> ELSE <<0>>
    /\ UNCHANGED <<credentials, built, entered_with, config, organisation,
                   has_run_audit, errors, members, repos, idx, found, fkind,
                   next, entities, fresult, log, outcome, compliant, offenders>>

MainNext ==
    \/ BuilderFinish
    \/ MainTryOrExit
    \/ MainAudit
    \/ Audit2fa
    \/ AdminBegin
    \/ GetAllStep(AuditPages, AuditItems, FALSE)
    \/ FindStep(AuditPages, AuditItems, FALSE)
    \/ AdminMembers
    \/ AdminEvents
    \/ BranchBegin
    \/ BranchRepos
    \/ BranchBranches
    \/ AuditFinish
    \/ MainExit

MainSpec == MainInit /\ [][MainNext]_vars

----------------------------------------------------------------------------
\* One of the two list checks alone, on an organisation that has all its
\* fields, with room for one more admin or repository on a page.
WideInit ==
    /\ Init
    /\ config.admins_have_no_commit_activity # config.all_repos_master_is_protected
    /\ CompliantOrganisation(organisation)

WideNext ==
    \/ AuditEnter
    \/ Audit2fa
    \/ AdminBegin
    \/ GetAllStep(AuditPages, AuditItems + 1, FALSE)
    \/ FindStep(AuditPages, AuditItems, FALSE)
    \/ AdminMembers
    \/ AdminEvents
    \/ BranchBegin
    \/ BranchRepos
    \/ BranchBranches
    \/ AuditFinish

WideSpec == WideInit /\ [][WideNext]_vars

----------------------------------------------------------------------------
\* The audit engine of an Auditor whose config may hold whitelists.
WhitelistInit == Built(WhitelistConfigs)

WhitelistSpec == WhitelistInit /\ [][Next]_vars

----------------------------------------------------------------------------
\* Properties of the audit engine (Spec)

Enabled2fa == config.enforces_2fa
EnabledAdmin == config.admins_have_no_commit_activity
EnabledBranch == config.all_repos_master_is_protected

IsEnabled(c) ==
    CASE c = "2fa" -> Enabled2fa
      [] c = "admin" -> EnabledAdmin
      [] OTHER -> EnabledBranch

EntriesBy(c) == { i \in 1..Len(errors) : errors[i].by = c }

\* C1: no short-circuiting across checks.  When audit() returns, every
\* enabled check has run to an outcome (passed, failed, or ended in a
\* transport, decode or missing-data error), whatever the checks before it
\* came to, and the report holds exactly one entry of each enabled check that
\* failed or ended in an error, and none of a check that passed.
C1_NoShortCircuit ==
    pc = "done" =>
        \A c \in {"2fa", "admin", "branch"} :
            IsEnabled(c) =>
                /\ outcome[c] \in {"passed", "failed", "error"}
                /\ Cardinality(EntriesBy(c)) =
                       (IF outcome[c] \in {"failed", "error"} THEN 1 ELSE 0)

\* The 2FA check failed, the admin check ended in an error, and the branch
\* check, the last of the three, still ran and reported its failure.
C1_Witness ==
    /\ pc = "done"
    /\ Enabled2fa /\ EnabledAdmin /\ EnabledBranch
    /\ outcome["2fa"] = "failed"
    /\ outcome["admin"] = "error"
    /\ outcome["branch"] = "failed"
    /\ Len(errors) = 3

NoAuditsRan == Entry(AuditError("NoAuditsRan", <<>>), "audit")

\* C2: with the three toggles disabled, audit() returns a report of exactly
\* one entry, NoAuditsRan, whatever the organisation is.
C2_NoAuditsRan ==
    (pc = "done" /\ ~Enabled2fa /\ ~EnabledAdmin /\ ~EnabledBranch)
        => errors = <<NoAuditsRan>>

C2_Witness ==
    /\ pc = "done"
    /\ ~Enabled2fa /\ ~EnabledAdmin /\ ~EnabledBranch
    /\ Get(organisation, "two_factor_requirement_enabled") = <<FALSE>>
    /\ errors = <<NoAuditsRan>>

\* C3: the three checks, run on a compliant organisation (the two-factor
\* requirement set, no admin with a PushEvent, no repository with its
\* primary branch among the unprotected branches the server lists) with no
\* error of transport, return an empty report.
C3_CompliantPasses ==
    (pc = "done" /\ Enabled2fa /\ EnabledAdmin /\ EnabledBranch /\ compliant)
        => errors = <<>>

Rank(by) ==
    CASE by = "2fa" -> 1
      [] by = "admin" -> 2
      [] by = "branch" -> 3
      [] OTHER -> 4

\* The check an audit failure comes from, by its kind.
KindRank(kind) ==
    CASE kind = "Disabled2Fa" -> 1
      [] kind = "AdminsHaveCommits" -> 2
      [] kind = "UnProtectedMasterBranches" -> 3
      [] OTHER -> 4

\* C4: the entries of the report are in the order the checks run: an entry of
\* the 2FA check comes before one of the admin check, which comes before one
\* of the branch check; NoAuditsRan, when there, is last; and an audit
\* failure is the entry of the check it names.
C4_ReportOrder ==
    /\ \A i, j \in 1..Len(errors) : i < j => Rank(errors[i].by) < Rank(errors[j].by)
    /\ \A i \in 1..Len(errors) :
         errors[i].type = "Audit" => KindRank(errors[i].kind) = Rank(errors[i].by)

C4_Witness ==
    /\ pc = "done"
    /\ Len(errors) = 3
    /\ errors[1].kind = "Disabled2Fa"
    /\ errors[2].kind = "AdminsHaveCommits"
    /\ errors[3].type = "Http" /\ errors[3].by = "branch"

Flag2fa == Get(organisation, "two_factor_requirement_enabled")

Disabled2Fa == Entry(AuditError("Disabled2Fa", <<>>), "2fa")

\* C10: the 2FA check, when enabled, passes exactly when the organisation's
\* two_factor_requirement_enabled is true; when it is false the report holds
\* Disabled2Fa; and the check has issued no request when it returns.
C10_TwoFactor ==
    /\ (pc = "admin" /\ Enabled2fa) =>
          /\ outcome["2fa"] = "passed" <=> Flag2fa = <<TRUE>>
          /\ outcome["2fa"] = "passed" => errors = <<>>
          /\ Flag2fa = <<FALSE>> => errors = <<Disabled2Fa>>
          /\ log = <<>> /\ fkind = "none"
    /\ (pc = "done" /\ Enabled2fa) =>
          /\ Flag2fa = <<TRUE>> => \A i \in 1..Len(errors) : errors[i].kind # "Disabled2Fa"
          /\ Flag2fa = <<FALSE>> => errors # <<>> /\ errors[1] = Disabled2Fa

C10_Witness ==
    /\ pc = "done"
    /\ Enabled2fa
    /\ Flag2fa = <<FALSE>>
    /\ errors # <<>> /\ errors[1] = Disabled2Fa

----------------------------------------------------------------------------
\* Properties of the paginated fetcher (FetchSpec)

\* The response is a page: the request succeeded and the body decodes.
IsPage(resp) == resp.transport = "ok" /\ resp.body.kind # "undecodable"

\* The items of the page served to request i of the fetch.
PageItems(i) ==
    IF IsPage(log[i].resp) /\ log[i].resp.body.kind = "array"
    THEN log[i].resp.body.items ELSE <<>>

HasMatch(i) == \E n \in 1..Len(PageItems(i)) : Pred(log[i].url, PageItems(i)[n])

\* The items of the pages served to requests 1..n, in page order.
RECURSIVE ItemsUpTo(_)
ItemsUpTo(n) == IF n = 0 THEN <<>> ELSE ItemsUpTo(n - 1) \o PageItems(n)

HasNext(i) == NextLink(log[i].resp.link) # <<>>

\* C5: find exits early.  The page that holds a match is the last page find
\* requests, so the first such page is page k exactly when find issues k
\* requests, and find has returned an item then, a next link on page k or not.
C5_FindEarlyExit ==
    fkind = "find" =>
        \A i \in 1..Len(log) :
            HasMatch(i) =>
                /\ Len(log) = i
                /\ fresult.ok /\ IsSome(fresult.value)
                /\ next = <<>>

\* Three pages, the only match on page 2, which has a next link to page 3:
\* two requests.
C5_Witness ==
    /\ fkind = "find"
    /\ Len(log) = 2
    /\ ~HasMatch(1) /\ HasMatch(2)
    /\ HasNext(2)
    /\ NextLink(log[2].resp.link)[1].page = 3
    /\ fresult.ok

\* Every request so far was answered with a page that is a JSON array.
AllArrays == \A i \in 1..Len(log) : IsPage(log[i].resp) /\ log[i].resp.body.kind = "array"

\* The requests follow the chain: the first is for the URL get_all or find was
\* called with, each later one for the URL the next link of the page before
\* names.
FollowsChain(start) ==
    \A i \in 1..Len(log) :
        log[i].url = IF i = 1 THEN start ELSE NextLink(log[i - 1].resp.link)[1]

\* C6: get_all, with no error, returns the items of every page of the chain,
\* in page order and within a page in the order served, with one request for
\* each page of the chain, and returns when a page has no next link.
C6_GetAllConcatenates ==
    (fkind = "get_all" /\ AllArrays) =>
        /\ entities = ItemsUpTo(Len(log))
        /\ FollowsChain(Url("members", 0, "?role=admin", 1))
        /\ \A i \in 1..Len(log) : i < Len(log) => HasNext(i)
        /\ (Len(log) > 0 /\ ~HasNext(Len(log))) => fresult = Ok(ItemsUpTo(Len(log)))
        /\ (Len(log) > 0 /\ HasNext(Len(log))) =>
               fresult = Pending /\ next = NextLink(log[Len(log)].resp.link)

\* Three pages of 2, 2 and 1 items: the five items, in order.
C6_Witness ==
    /\ fkind = "get_all"
    /\ Len(log) = 3
    /\ fresult.ok
    /\ Len(PageItems(1)) = 2 /\ Len(PageItems(2)) = 2 /\ Len(PageItems(3)) = 1
    /\ Len(fresult.value) = 5
    /\ \A n \in 1..5 : fresult.value[n].login = <<11, 12, 21, 22, 31>>[n]
    /\ \A i, j \in 1..3 : i # j => log[i].url # log[j].url

AllPages == \A i \in 1..Len(log) : IsPage(log[i].resp)

\* The item of the sequence that satisfies the predicate with none before it
\* that does.
FirstSatisfying(url, items) ==
    IF \A n \in 1..Len(items) : ~Pred(url, items[n]) THEN <<>>
    ELSE <<items[CHOOSE n \in 1..Len(items) :
                    /\ Pred(url, items[n])
                    /\ \A m \in 1..(n - 1) : ~Pred(url, items[m])]>>

\* C7: find, with no error, returns the first item that satisfies the
\* predicate, in page order and within a page in the order served; with no
\* such item on any page up to the one with no next link, it returns Ok(None).
C7_FindFirst ==
    (fkind = "find" /\ AllPages /\ Len(log) > 0) =>
        /\ FollowsChain(Url("events", 1, "", 1))
        /\ fresult # Pending =>
              /\ fresult = Ok(FirstSatisfying(log[1].url, ItemsUpTo(Len(log))))
              /\ fresult.value = <<>> => ~HasNext(Len(log))
        /\ fresult = Pending =>
              /\ FirstSatisfying(log[1].url, ItemsUpTo(Len(log))) = <<>>
              /\ HasNext(Len(log))
              /\ next = NextLink(log[Len(log)].resp.link)

\* No match on page 1, two on page 2: the first of the two.
C7_Witness ==
    /\ fkind = "find"
    /\ Len(log) = 2
    /\ Len(PageItems(1)) = 2 /\ ~HasMatch(1)
    /\ Len(PageItems(2)) = 2
    /\ Pred(log[2].url, PageItems(2)[1]) /\ Pred(log[2].url, PageItems(2)[2])
    /\ fresult = Ok(<<PageItems(2)[1]>>)

\* C8: a request that fails in transport is the last request of the fetch:
\* the fetch has returned the error and no item, it issues no request after
\* it, and the URL that failed was requested once.
C8_TransportFailureAborts ==
    \A i \in 1..Len(log) :
        log[i].resp.transport = "fail" =>
            /\ Len(log) = i
            /\ fresult = Err("Http")
            /\ fresult.value = <<>>
            /\ next = <<>>
            /\ \A j \in 1..Len(log) : j # i => log[j].url # log[i].url

\* Two pages of items fetched, the third request fails.
C8_Witness ==
    /\ fkind = "get_all"
    /\ Len(log) = 3
    /\ Len(PageItems(1)) > 0 /\ Len(PageItems(2)) > 0
    /\ log[3].resp.transport = "fail"
    /\ fresult = Err("Http")

\* The Link header is absent, does not decode, or has no next link.
NoNextLink(h) ==
    \/ h.kind \in {"absent", "malformed"}
    \/ h.kind = "links" /\ \A n \in 1..Len(h.values) : "next" \notin h.values[n].rel

\* C9: a page whose Link header is absent, does not decode or has no next
\* link is the last page: the fetch returns after it, and returns what it
\* has, Ok, unless the body of the page is in error.
C9_NoLinkIsLastPage ==
    \A i \in 1..Len(log) :
        (log[i].resp.transport = "ok" /\ NoNextLink(log[i].resp.link)) =>
            /\ Len(log) = i
            /\ fresult # Pending
            /\ next = <<>>
            /\ (fkind = "get_all" /\ AllArrays) => fresult = Ok(ItemsUpTo(i))
            /\ (fkind = "find" /\ AllPages) => fresult.ok

\* The second page of a get_all has a Link header that does not decode.
C9_Witness ==
    /\ fkind = "get_all"
    /\ Len(log) = 2
    /\ log[2].resp.transport = "ok"
    /\ log[2].resp.link.kind = "malformed"
    /\ Len(PageItems(1)) > 0 /\ Len(PageItems(2)) > 0
    /\ fresult = Ok(PageItems(1) \o PageItems(2))

----------------------------------------------------------------------------
Increasing(ids) == \A i, j \in 1..Len(ids) : i < j => ids[i] < ids[j]

Logins(ms) == [i \in 1..Len(ms) |-> ms[i].login]

\* C11: the admin check, enabled and with no fetch failing.  It passes exactly
\* when no page served of any admin's feed held a PushEvent; otherwise its
\* entry is AdminsHaveCommits, and the evidence is the admins whose feed held
\* a PushEvent, each once, in the order the member listing enumerates them
\* (logins grow along the listing).
C11_AdminsHaveCommits ==
    (pc = "branch" /\ EnabledAdmin /\ outcome["admin"] # "error") =>
        /\ (outcome["admin"] = "passed") <=> (offenders = <<>>)
        /\ (outcome["admin"] = "passed") => (EntriesBy("admin") = {})
        /\ (outcome["admin"] = "failed") =>
              /\ Cardinality(EntriesBy("admin")) = 1
              /\ \A i \in EntriesBy("admin") :
                    /\ errors[i].type = "Audit"
                    /\ errors[i].kind = "AdminsHaveCommits"
                    /\ errors[i].evidence = offenders
                    /\ Increasing(Logins(errors[i].evidence))

\* Two admins on the first page, of whom the second alone has pushed: login 12
\* is that of the second item of the page, and the evidence is that admin only.
C11_Witness ==
    /\ pc = "branch"
    /\ outcome["admin"] = "failed"
    /\ \E i \in EntriesBy("admin") : Logins(errors[i].evidence) = <<12>>

FullNames(rs) == [i \in 1..Len(rs) |-> rs[i].full_name]

\* C12: the branch check, enabled and with no fetch failing.  A repository is
\* in the evidence of UnProtectedMasterBranches exactly when the branch looked
\* up is absent from the listing served, or is listed and not marked protected
\* = true; the check passes exactly when no repository is so classified; the
\* evidence is in the order the repository listing enumerates them.
C12_UnprotectedMasterBranches ==
    (pc = "finish" /\ EnabledBranch /\ outcome["branch"] # "error") =>
        /\ (outcome["branch"] = "passed") <=> (offenders = <<>>)
        /\ (outcome["branch"] = "passed") => (EntriesBy("branch") = {})
        /\ (outcome["branch"] = "failed") =>
              /\ Cardinality(EntriesBy("branch")) = 1
              /\ \A i \in EntriesBy("branch") :
                    /\ errors[i].type = "Audit"
                    /\ errors[i].kind = "UnProtectedMasterBranches"
                    /\ errors[i].evidence = offenders
                    /\ Increasing(FullNames(errors[i].evidence))

\* Two repositories on the first page: the listing of the first holds a
\* protected master, and the second (full_name 12) is the only one classified.
C12_Witness ==
    /\ pc = "finish"
    /\ outcome["branch"] = "failed"
    /\ \E i \in EntriesBy("branch") : FullNames(errors[i].evidence) = <<12>>

\* C13: the branch that the branch check looks up for a repository is the
\* branch whose name is the repository's own primary (default) branch name:
\* whenever find returns a branch to the check, the branch is named as the
\* default_branch of the repository whose branches were listed.
C13_PrimaryBranchLookedUp ==
    (pc = "branch_branches" /\ fresult # Pending /\ fresult.ok
     /\ IsSome(fresult.value)) =>
        Get(fresult.value[1], "name") = Get(repos[idx], "default_branch")

\* The one entry a check left in the report is the missing-data error.
MissingDataBy(c) ==
    /\ Cardinality(EntriesBy(c)) = 1
    /\ \A i \in EntriesBy(c) : errors[i].type = "MissingGitHubData"

\* C14: a field of the organisation that an enabled check requires
\* (two_factor_requirement_enabled, members_url, repos_url) and that the
\* organisation lacks makes the entry of that check the missing-data error,
\* never a pass and never a policy failure computed from a default; the other
\* enabled checks still run to an outcome.
C14_MissingDataReported ==
    (pc = "done") =>
        /\ (Enabled2fa /\ Flag2fa = <<>>) => MissingDataBy("2fa")
        /\ (EnabledAdmin /\ Get(organisation, "members_url") = <<>>)
              => MissingDataBy("admin")
        /\ (EnabledBranch /\ Get(organisation, "repos_url") = <<>>)
              => MissingDataBy("branch")
        /\ \A c \in {"2fa", "admin", "branch"} :
              IsEnabled(c) => outcome[c] \in {"passed", "failed", "error"}

\* What a run of audit() starts from, the Auditor's config and organisation
\* apart: the flag down, no error collected, no local of a check, no fetch.
FreshRun ==
    /\ has_run_audit = FALSE
    /\ errors = <<>>
    /\ outcome = NoOutcome
    /\ members = <<>> /\ repos = <<>> /\ idx = 0 /\ found = <<>>
    /\ fkind = "none" /\ next = <<>> /\ entities = <<>>
    /\ fresult = Pending /\ log = <<>>

\* C15: audit() is idempotent.  Every run, the first and the later ones,
\* starts from the same state whatever the run before left (the flag is
\* reset on entry, the errors are local to the call), and no step of a run
\* changes the config or the organisation: with the same responses a later
\* run goes through the steps of the first and returns its report.
C15_RunsStartAlike ==
    /\ [](pc = "2fa" => FreshRun)
    /\ [][config' = config /\ organisation' = organisation]_vars

\* A run is entered on an Auditor whose flag the run before left set.
C15_Witness == pc = "2fa" /\ entered_with = <<TRUE>>

Exited(code) == pc = "exited" /\ exit_code = <<code>>

\* C16: no check runs unless the organisation was loaded.  With no key in the
\* flag nor in the environment, finish fails with NoAuthKey and has made no
\* request; when the request of the organisation fails, finish fails, no
\* Auditor is constructed and no check makes a request.  Both exit with -1;
\* the exit code is -2 exactly when an Auditor was built and audit() returned
\* errors.
C16_OrganisationFirst ==
    /\ (pc = "built") =>
          /\ (credentials.flag = <<>> /\ credentials.env = <<>>)
                <=> (built = Err("NoAuthKey"))
    /\ (built = Err("NoAuthKey")) => (log = <<>>)
    /\ (built # Pending /\ ~built.ok) =>
          /\ pc \in {"built", "exited"}
          /\ pc = "exited" => exit_code = <<-1>>
          /\ organisation = NoOrganisation
          /\ outcome = NoOutcome /\ ~has_run_audit /\ errors = <<>>
          /\ fkind = "none"
          /\ \A i \in 1..Len(log) : log[i].url = OrgUrl
    /\ (pc \notin {"main", "built", "exited"} \/ outcome # NoOutcome)
          => (built.ok /\ organisation # NoOrganisation)
    /\ Exited(-1) <=> (pc = "exited" /\ ~built.ok)
    /\ Exited(-2) <=> (pc = "exited" /\ built.ok /\ errors # <<>>)

\* The key is there, the request of the organisation fails, the process has
\* exited with -1 after that one request.
C16_Witness ==
    /\ Exited(-1)
    /\ built = Err("Http")
    /\ Len(log) = 1

\* C17: the default configuration is the documented one: the 2FA check and
\* the admin check on, the branch check off; a run of the Auditor built with
\* no explicit config does not execute the branch check.
C17_DocumentedDefault ==
    (built # Pending /\ built.ok) =>
        /\ config.enforces_2fa
        /\ config.admins_have_no_commit_activity
        /\ ~config.all_repos_master_is_protected
        /\ (pc \in {"done", "exited"}) => (outcome["branch"] = "skipped")

\* C18: when the config holds a whitelist (Some), audit() reports a failure
\* whenever the organisation's set has an entry the whitelist lacks or lacks
\* an entry of the whitelist.  No admin, member or installation of the
\* organisation is named "bors": with "bors" on a whitelist the organisation
\* lacks an entry of it, and the report is not empty.
C18_WhitelistEnforced ==
    (pc = "done" /\ \E w \in {"installed_app_whitelist", "admin_whitelist",
                               "member_whitelist"} : IsSome(config[w]))
        => (errors # <<>>)

AnyEnabled == Enabled2fa \/ EnabledAdmin \/ EnabledBranch

\* C19: the report holds NoAuditsRan only when every toggle is disabled.  A
\* check past its toggle has set the flag before its first fetch, so that with
\* a toggle enabled the report never holds NoAuditsRan, even when every
\* enabled check ends in an error; once audit() has returned, has_run() is
\* true exactly when a toggle is enabled.
C19_HasRun ==
    /\ (pc = "done") =>
          /\ has_run_audit <=> AnyEnabled
          /\ (\E i \in 1..Len(errors) : errors[i].kind = "NoAuditsRan")
                <=> ~AnyEnabled
    /\ (fkind # "none") => has_run_audit

\* The toggles enabled all ended in an error, and the run did count.
C19_Witness ==
    /\ pc = "done"
    /\ AnyEnabled
    /\ \A c \in {"2fa", "admin", "branch"} : IsEnabled(c) => outcome[c] = "error"
    /\ has_run_audit
    /\ \A i \in 1..Len(errors) : errors[i].kind # "NoAuditsRan"

====
